---- MODULE Spec2Model ----
(***************************************************************************)
(* MQTT to Supabase bridge (src/code/mqtt-streamer.py).                    *)
(*                                                                         *)
(* The model follows the process from its start: the module body and main, *)
(* MQTTBridge.__init__ with _setup_environment and DatabaseManager, then   *)
(* MQTTBridge.start (the connect / loop_forever / retry loop),             *)
(* MQTTBridge._on_connect, MQTTBridge._on_message and the two topic        *)
(* handlers, and DatabaseManager.store_data.  Python exceptions are        *)
(* values that travel through the try/except blocks of the source, so      *)
(* which handler catches what is computed, not assumed.                    *)
(***************************************************************************)
EXTENDS Naturals, Integers, Sequences, FiniteSets, TLC

(***************************************************************************)
(* Bounds of the model.                                                    *)
(***************************************************************************)
MaxMessages == 2      \* messages the transport delivers in one run
MaxConnects == 3      \* connect attempts start() makes in one run
MaxEvents == 3        \* connect attempts plus deliveries in one run
MaxClock == 1         \* readings of the host clock are 0..MaxClock

(***************************************************************************)
(* Program constants.                                                      *)
(***************************************************************************)
RetryDelay == 5       \* time.sleep(5)
QoS == 1              \* (topic.value, 1) for topic in TopicType

DATA == "device/data"
DEBUG == "device/debug"
\* a topic outside the TopicType enumeration
OtherTopic == "device/other"

TopicType == {DATA, DEBUG}

\* MQTTConfig.topics as built in MQTTBridge.__init__
ConfigTopics == {<<t, QoS>> : t \in TopicType}

(***************************************************************************)
(* Python exceptions: an exception is a record of its class and its        *)
(* argument; NoExc stands for "nothing was raised".                        *)
(***************************************************************************)
NoExc == [type |-> "None", arg |-> ""]

Raise(t, a) == [type |-> t, arg |-> a]

\* the classes an exception of class t is an instance of
Bases(t) ==
    CASE t = "JSONDecodeError" ->
            {"JSONDecodeError", "ValueError", "Exception", "BaseException"}
      [] t = "UnicodeDecodeError" ->
            {"UnicodeDecodeError", "ValueError", "Exception", "BaseException"}
      [] t = "KeyError" ->
            {"KeyError", "LookupError", "Exception", "BaseException"}
      [] t = "TypeError" -> {"TypeError", "Exception", "BaseException"}
      [] t = "AttributeError" -> {"AttributeError", "Exception", "BaseException"}
      [] t = "OSError" -> {"OSError", "Exception", "BaseException"}
      [] t = "FileNotFoundError" ->
            {"FileNotFoundError", "OSError", "Exception", "BaseException"}
      [] t = "APIError" -> {"APIError", "Exception", "BaseException"}
      [] t = "RuntimeError" -> {"RuntimeError", "Exception", "BaseException"}
      [] t = "RecursionError" ->
            {"RecursionError", "RuntimeError", "Exception", "BaseException"}
      [] t = "ValueError" -> {"ValueError", "Exception", "BaseException"}
      [] t = "UnboundLocalError" ->
            {"UnboundLocalError", "NameError", "Exception", "BaseException"}
      [] OTHER -> {t, "BaseException"}

IsInstance(e, cls) == e.type # "None" /\ cls \in Bases(e.type)

(***************************************************************************)
(* JSON values.  A field value is opaque to the bridge: <<kind, n>>.       *)
(* The empty mapping {} is <<"map", 0>>.                                   *)
(***************************************************************************)
EmptyMapping == <<"map", 0>>

\* the keyword arguments of StreamData(...) in evaluation order
Required == <<"stream_id", "frame_id", "device_id", "timestamp", "timeout", "data">>

RequiredSet == {Required[i] : i \in DOMAIN Required}

IndexOf(k) == CHOOSE i \in DOMAIN Required : Required[i] = k

(***************************************************************************)
(* The messages the transport may deliver.  The bytes of a payload are     *)
(* either not valid UTF-8, or text; text is either not JSON, a JSON array, *)
(* or a JSON object written as a sequence of <<key, value>> members.       *)
(***************************************************************************)
\* the value the payloads of the model give key k: a number for timeout, else
\* a string, a different one for each key
FieldValue(k) ==
    IF k = "timeout" THEN <<"num", 30>> ELSE <<"str", IndexOf(k)>>

\* {"stream_id":..,"frame_id":..,"device_id":..,"timestamp":..,"timeout":..,"data":..}
FullMembers == [i \in DOMAIN Required |-> <<Required[i], FieldValue(Required[i])>>]

\* a value of the wrong kind for each key: null, the empty string, a number
\* for a string, a mapping for a string, a string for the number, null
OddValue(k) ==
    CASE k = "stream_id" -> <<"null", 0>>
      [] k = "frame_id" -> <<"str", 0>>
      [] k = "device_id" -> <<"num", 7>>
      [] k = "timestamp" -> <<"map", 3>>
      [] k = "timeout" -> <<"str", 30>>
      [] OTHER -> <<"null", 0>>

OddMembers == [i \in DOMAIN Required |-> <<Required[i], OddValue(Required[i])>>]

Without(members, k) == SelectSeq(members, LAMBDA m : m[1] # k)

Garbage == [kind |-> "garbage", members |-> <<>>]
Array == [kind |-> "array", members |-> <<>>]
Object(members) == [kind |-> "object", members |-> members]

Utf8(text) == [enc |-> "utf8", text |-> text]
BadUtf8 == [enc |-> "bad_utf8", text |-> Garbage]

\* {"stream_id":..,"frame_id":..} : scenario B of the specification
ScenarioB == Object(SubSeq(FullMembers, 1, 2))

\* Data-topic payloads: undecodable bytes, non-JSON text, a JSON array,
\* complete objects (without and with metadata, and with values of the wrong
\* kinds), scenario B, and the complete object less each one of the required
\* keys
DataPayloads ==
    {BadUtf8, Utf8(Garbage), Utf8(Array), Utf8(ScenarioB)}
      \cup {Utf8(Object(FullMembers)), Utf8(Object(OddMembers))}
      \cup {Utf8(Object(Append(FullMembers, <<"metadata", <<"map", 1>>>>)))}
      \cup {Utf8(Object(Without(FullMembers, k))) : k \in RequiredSet}

\* Debug-topic payloads: the same malformed ones, {} and {"meta": ..}, and an
\* object that would be a complete Data message
DebugPayloads ==
    {Utf8(Garbage), Utf8(Array), Utf8(Object(<<>>)),
     Utf8(Object(<< <<"meta", <<"map", 2>>>> >>)), Utf8(Object(FullMembers))}

OtherPayloads ==
    {Utf8(Garbage), Utf8(Array), Utf8(Object(FullMembers))}

Message(topic, payload) == [topic |-> topic, payload |-> payload]

Messages ==
    {Message(DATA, p) : p \in DataPayloads}
      \cup {Message(DEBUG, p) : p \in DebugPayloads}
      \cup {Message(OtherTopic, p) : p \in OtherPayloads}

(***************************************************************************)
(* bytes.decode() and json.loads()                                         *)
(***************************************************************************)
\* msg.payload.decode(): UnicodeDecodeError on bytes that are not UTF-8
bytes_decode(b) ==
    IF b.enc = "bad_utf8"
    THEN [raised |-> Raise("UnicodeDecodeError", "utf-8"), text |-> Garbage]
    ELSE [raised |-> NoExc, text |-> b.text]

NoDict == [k \in {} |-> EmptyMapping]

\* the dict json.loads builds from an object's members: a repeated key keeps
\* its last value
DictOf(members) ==
    [k \in {members[i][1] : i \in DOMAIN members} |->
        LET last == CHOOSE i \in DOMAIN members :
                        /\ members[i][1] = k
                        /\ \A j \in DOMAIN members : members[j][1] = k => j <= i
        IN  members[last][2]]

\* json.loads(text): JSONDecodeError on text that is not JSON, else the value
json_loads(text) ==
    CASE text.kind = "garbage" ->
            [raised |-> Raise("JSONDecodeError", "Expecting value"),
             value |-> [t |-> "none", f |-> NoDict]]
      [] text.kind = "array" ->
            [raised |-> NoExc, value |-> [t |-> "list", f |-> NoDict]]
      [] text.kind = "object" ->
            [raised |-> NoExc, value |-> [t |-> "dict", f |-> DictOf(text.members)]]

\* variant: a missing key reads as a default instead of raising KeyError
Subscript_Default(payload, key) ==
    IF payload.t = "dict"
    THEN [raised |-> NoExc,
          value |-> IF key \in DOMAIN payload.f THEN payload.f[key] ELSE EmptyMapping]
    ELSE [raised |-> Raise("TypeError", "indices must be integers"),
          value |-> EmptyMapping]

\* variant: a key whose value is null or the empty string counts as missing
Subscript_RejectEmpty(payload, key) ==
    IF payload.t = "dict"
    THEN IF key \in DOMAIN payload.f /\ payload.f[key] \notin {<<"null", 0>>, <<"str", 0>>}
         THEN [raised |-> NoExc, value |-> payload.f[key]]
         ELSE [raised |-> Raise("KeyError", key), value |-> EmptyMapping]
    ELSE [raised |-> Raise("TypeError", "indices must be integers"),
          value |-> EmptyMapping]

\* payload[key]: KeyError on a dict without the key, TypeError on a list
Subscript(payload, key) ==
    IF payload.t = "dict"
    THEN IF key \in DOMAIN payload.f
         THEN [raised |-> NoExc, value |-> payload.f[key]]
         ELSE [raised |-> Raise("KeyError", key), value |-> EmptyMapping]
    ELSE [raised |-> Raise("TypeError", "indices must be integers"),
          value |-> EmptyMapping]

\* payload.get(key, default): AttributeError on a value that is no dict
DictGet(payload, key, default) ==
    IF payload.t = "dict"
    THEN [raised |-> NoExc,
          value |-> IF key \in DOMAIN payload.f THEN payload.f[key] ELSE default]
    ELSE [raised |-> Raise("AttributeError", "get"), value |-> default]

(***************************************************************************)
(* Log lines: the level, the format string's text, and str(e) or "".       *)
(* A line is a call made on self._logger, at whatever level the handlers   *)
(* are configured to print.                                                *)
(***************************************************************************)
LogLine(level, text, arg) == [level |-> level, text |-> text, arg |-> arg]

\* the smallest element of a non-empty set of numbers
Min(S) == CHOOSE x \in S : \A y \in S : x <= y

\* variant: image_data is filled from the timestamp argument
StreamData_Swapped(stream_id, frame_id, device_id, timestamp, timeout, image_data, metadata, now) ==
    [stream_id |-> stream_id, frame_id |-> frame_id, device_id |-> device_id,
     timestamp |-> timestamp, timeout |-> timeout, image_data |-> timestamp,
     metadata |-> metadata, created_at |-> <<"time", now>>]

(***************************************************************************)
(* StreamData(...): the dataclass constructor.  created_at is the default  *)
(* factory's reading of the clock.                                         *)
(***************************************************************************)
StreamData(stream_id, frame_id, device_id, timestamp, timeout, image_data, metadata, now) ==
    [stream_id |-> stream_id, frame_id |-> frame_id, device_id |-> device_id,
     timestamp |-> timestamp, timeout |-> timeout, image_data |-> image_data,
     metadata |-> metadata, created_at |-> <<"time", now>>]

\* variant: a failed insert is tried a second time
store_data_Retry(data, ins) ==
    LET call == [row |-> data, outcome |-> ins]
    IN  IF ins = NoExc
        THEN [raised |-> NoExc, ret |-> TRUE, calls |-> <<call>>,
              logs |-> <<LogLine("info", "Successfully stored frame", "")>>]
        ELSE [raised |-> NoExc, ret |-> FALSE, calls |-> <<call, call>>,
              logs |-> <<LogLine("error", "Error storing data", ins.type),
                         LogLine("error", "traceback", ins.type)>>]

(***************************************************************************)
(* DatabaseManager.store_data.  ins is what the client's                   *)
(* table("stream_data").insert(row).execute() does: NoExc when it          *)
(* completes, else the exception it raises.  calls is the insert calls     *)
(* made on the client.                                                     *)
(***************************************************************************)
\* variant: the except clause logs the error and raises it again
store_data_Reraise(data, ins) ==
    LET call == [row |-> data, outcome |-> ins]
    IN  IF ins = NoExc
        THEN [raised |-> NoExc, ret |-> TRUE, calls |-> <<call>>,
              logs |-> <<LogLine("info", "Successfully stored frame", "")>>]
        ELSE [raised |-> ins, ret |-> FALSE, calls |-> <<call>>,
              logs |-> <<LogLine("error", "Error storing data", ins.type),
                         LogLine("error", "traceback", ins.type)>>]

store_data(data, ins) ==
    LET call == [row |-> data, outcome |-> ins]
    IN  IF ins = NoExc
        THEN [raised |-> NoExc, ret |-> TRUE, calls |-> <<call>>,
              logs |-> <<LogLine("info", "Successfully stored frame", "")>>]
        ELSE IF IsInstance(ins, "Exception")
        THEN [raised |-> NoExc, ret |-> FALSE, calls |-> <<call>>,
              logs |-> <<LogLine("error", "Error storing data", ins.type),
                         LogLine("error", "traceback", ins.type)>>]
        ELSE [raised |-> ins, ret |-> FALSE, calls |-> <<call>>, logs |-> <<>>]

(***************************************************************************)
(* MQTTBridge._handle_data_message                                         *)
(***************************************************************************)
\* payload.get("metadata", {})
Metadata(payload) == DictGet(payload, "metadata", EmptyMapping)

\* the try block: build the StreamData, store it
handle_data_try(payload, ins, now) ==
    LET arg == [i \in DOMAIN Required |-> Subscript(payload, Required[i])]
        bad == {i \in DOMAIN Required : arg[i].raised # NoExc}
        md == Metadata(payload)
        argExc == IF bad # {} THEN arg[Min(bad)].raised ELSE md.raised
        stream_data == StreamData(arg[1].value, arg[2].value, arg[3].value,
                                  arg[4].value, arg[5].value, arg[6].value,
                                  md.value, now)
        st == store_data(stream_data, ins)
    IN  IF argExc # NoExc
        THEN [raised |-> argExc, logs |-> <<>>, calls |-> <<>>]
        ELSE [raised |-> st.raised,
              logs |-> IF st.raised = NoExc /\ st.ret
                       THEN Append(st.logs,
                                   LogLine("info", "Successfully processed frame", ""))
                       ELSE st.logs,
              calls |-> st.calls]

\* the except clauses: KeyError, then Exception
handle_data_except(body) ==
    IF body.raised = NoExc THEN body
    ELSE IF IsInstance(body.raised, "KeyError")
    THEN [raised |-> NoExc, calls |-> body.calls,
          logs |-> Append(body.logs,
                          LogLine("error", "Missing required field in payload",
                                  body.raised.arg))]
    ELSE IF IsInstance(body.raised, "Exception")
    THEN [raised |-> NoExc, calls |-> body.calls,
          logs |-> Append(body.logs,
                          LogLine("error", "Error handling data message",
                                  body.raised.type))]
    ELSE body

handle_data_message(payload, ins, now) ==
    handle_data_except(handle_data_try(payload, ins, now))

(***************************************************************************)
(* MQTTBridge._handle_debug_message                                        *)
(***************************************************************************)
handle_debug_message(payload) ==
    LET meta == DictGet(payload, "meta", EmptyMapping)
    IN  IF meta.raised # NoExc
        THEN [raised |-> meta.raised, logs |-> <<>>, calls |-> <<>>]
        ELSE [raised |-> NoExc, calls |-> <<>>,
              logs |-> <<LogLine("debug", "Debug data", "")>>]

\* variant: the Debug topic is routed to the data handler
route_DebugAsData(topic, payload, ins, now) ==
    IF topic = DATA \/ topic = DEBUG THEN handle_data_message(payload, ins, now)
    ELSE [raised |-> NoExc, logs |-> <<>>, calls |-> <<>>]

\* variant: every topic but Debug is routed to the data handler
route_DefaultData(topic, payload, ins, now) ==
    IF topic = DEBUG THEN handle_debug_message(payload)
    ELSE handle_data_message(payload, ins, now)

(***************************************************************************)
(* MQTTBridge._on_message                                                  *)
(***************************************************************************)
\* the if / elif on msg.topic
route(topic, payload, ins, now) ==
    IF topic = DATA THEN handle_data_message(payload, ins, now)
    ELSE IF topic = DEBUG THEN handle_debug_message(payload)
    ELSE [raised |-> NoExc, logs |-> <<>>, calls |-> <<>>]

\* the try block: decode, parse, route
on_message_try(msg, ins, now) ==
    LET received == <<LogLine("debug", "Received message on topic", msg.topic)>>
        decoded == bytes_decode(msg.payload)
        loaded == json_loads(decoded.text)
        routed == route(msg.topic, loaded.value, ins, now)
    IN  IF decoded.raised # NoExc
        THEN [raised |-> decoded.raised, logs |-> received, calls |-> <<>>]
        ELSE IF loaded.raised # NoExc
        THEN [raised |-> loaded.raised, logs |-> received, calls |-> <<>>]
        ELSE [raised |-> routed.raised, logs |-> received \o routed.logs,
              calls |-> routed.calls]

\* variant: only json.JSONDecodeError is caught
on_message_except_JSONOnly(body) ==
    IF body.raised = NoExc THEN body
    ELSE IF IsInstance(body.raised, "JSONDecodeError")
    THEN [raised |-> NoExc, calls |-> body.calls,
          logs |-> body.logs \o
                   <<LogLine("error", "Failed to decode JSON message", body.raised.arg),
                     LogLine("debug", "Raw message", "")>>]
    ELSE body

\* variant: the except clauses swallow what they catch without a log line
on_message_except_Silent(body) ==
    IF IsInstance(body.raised, "Exception")
    THEN [raised |-> NoExc, calls |-> body.calls, logs |-> body.logs]
    ELSE body

\* the except clauses: json.JSONDecodeError, then Exception
on_message_except(body) ==
    IF body.raised = NoExc THEN body
    ELSE IF IsInstance(body.raised, "JSONDecodeError")
    THEN [raised |-> NoExc, calls |-> body.calls,
          logs |-> body.logs \o
                   <<LogLine("error", "Failed to decode JSON message", body.raised.arg),
                     LogLine("debug", "Raw message", "")>>]
    ELSE IF IsInstance(body.raised, "Exception")
    THEN [raised |-> NoExc, calls |-> body.calls,
          logs |-> body.logs \o
                   <<LogLine("error", "Error processing message", body.raised.type),
                     LogLine("error", "traceback", body.raised.type)>>]
    ELSE body

on_message(msg, ins, now) == on_message_except(on_message_try(msg, ins, now))

(***************************************************************************)
(* The state of the process.                                               *)
(*   pc            where the process is: in main before the logger is      *)
(*                 bound, in the steps of MQTTBridge.__init__, in start()  *)
(*                 (about to connect, inside loop_forever, in its except   *)
(*                 clause), in main's except clauses, or exited            *)
(*   env           the environment the process was started in              *)
(*   boot          the startup steps completed so far, in order            *)
(*   exit_code     the exit status, once pc = "exited"                     *)
(*   broker        what the broker does: anything, or, once "up", it is    *)
(*                 reachable and accepts every handshake                   *)
(*   session       the bus session: Disconnected, Connecting, Connected    *)
(*   subscriptions the <<topic, qos>> pairs subscribed in this session     *)
(*   acklog        the lines _on_connect logged in this session            *)
(*   exc           the exception in flight or being handled                *)
(*   trace         the connect calls, error logs and sleeps of start()     *)
(*   delivered     the messages the transport has handed to _on_message    *)
(*   results       for each of them, the log lines and insert calls made   *)
(*   inserted      every insert call made on the storage client, in order  *)
(*   clock         the last reading of the host clock                      *)
(***************************************************************************)
VARIABLES pc, env, boot, exit_code, broker, session, subscriptions, acklog, exc, trace, delivered, results, inserted, clock

vars == <<pc, env, boot, exit_code, broker, session, subscriptions, acklog, exc, trace, delivered, results, inserted, clock>>

\* the parts of the state a step of one phase leaves to the other phases
startup == <<env, boot>>
bus == <<session, subscriptions, acklog>>
history == <<trace, delivered, results, inserted, clock>>

\* required_vars of _setup_environment, in the order they are checked
required_vars == <<"SUPABASE_URL", "SUPABASE_KEY", "MQTT_BROKER", "MQTT_PORT">>

\* what os.getenv gives for a variable: nothing, the empty string, text
\* that is not a number, the digits of a number
EnvValues(v) ==
    IF v = "MQTT_PORT" THEN {"unset", "empty", "text", "digits"}
    ELSE {"unset", "empty", "text"}

Environments ==
    {e \in [{required_vars[i] : i \in DOMAIN required_vars} ->
                {"unset", "empty", "text", "digits"}] :
        \A v \in DOMAIN e : e[v] \in EnvValues(v)}

\* Python's truth value of os.getenv(v)
Truthy(value) == value \notin {"unset", "empty"}

Init ==
    /\ pc = "import"
    /\ env \in Environments
    /\ boot = <<>>
    /\ exit_code = -1
    /\ broker = "unstable"
    /\ session = "Disconnected"
    /\ subscriptions = {}
    /\ acklog = <<>>
    /\ exc = NoExc
    /\ trace = <<>>
    /\ delivered = <<>>
    /\ results = <<>>
    /\ inserted = <<>>
    /\ clock = 0

\* the user's interrupt, raised in whatever the main thread is doing
KeyboardInterrupt == Raise("KeyboardInterrupt", "")

(***************************************************************************)
(* The module body: logging.basicConfig opens logs/mqtt-bridge.log for     *)
(* appending before main runs; an exception here is caught by nobody       *)
(***************************************************************************)
BasicConfigOutcomes == {NoExc, Raise("FileNotFoundError", "logs/mqtt-bridge.log")}

Import(outcome) ==
    /\ pc = "import"
    /\ IF outcome = NoExc
       THEN pc' = "main" /\ exc' = exc /\ exit_code' = exit_code
       ELSE pc' = "exited" /\ exc' = outcome /\ exit_code' = 1
    /\ UNCHANGED <<startup, broker, bus, history>>

(***************************************************************************)
(* main: Path("logs").mkdir(exist_ok=True); logger = getLogger("main")     *)
(***************************************************************************)
MkdirOutcomes == {NoExc, Raise("OSError", "logs"), KeyboardInterrupt}

MainBegin(outcome) ==
    /\ pc = "main"
    /\ IF outcome = NoExc
       THEN pc' = "setup_environment" /\ boot' = Append(boot, "logger") /\ exc' = exc
       ELSE pc' = "main_except" /\ boot' = boot /\ exc' = outcome
    /\ UNCHANGED <<env, exit_code, broker, bus, history>>

(***************************************************************************)
(* MQTTBridge._setup_environment: the first required variable whose value  *)
(* is not truthy raises RuntimeError                                       *)
(***************************************************************************)
\* variant: MQTT_PORT is not among the variables that are checked
setup_environment_NoPort(e) ==
    LET missing == {i \in 1..3 : ~Truthy(e[required_vars[i]])}
    IN  IF missing = {} THEN NoExc
        ELSE Raise("RuntimeError", required_vars[Min(missing)])

setup_environment(e) ==
    LET missing == {i \in DOMAIN required_vars : ~Truthy(e[required_vars[i]])}
    IN  IF missing = {} THEN NoExc
        ELSE Raise("RuntimeError", required_vars[Min(missing)])

SetupEnvironment ==
    /\ pc = "setup_environment"
    /\ LET raised == setup_environment(env)
       IN  IF raised = NoExc
           THEN pc' = "database" /\ boot' = Append(boot, "env") /\ exc' = exc
           ELSE pc' = "main_except" /\ boot' = boot /\ exc' = raised
    /\ UNCHANGED <<env, exit_code, broker, bus, history>>

(***************************************************************************)
(* DatabaseManager.__init__: what construction raises, given what          *)
(* create_client(url, key) does                                            *)
(***************************************************************************)
CreateClientOutcomes == {NoExc, Raise("APIError", "unreachable"), KeyboardInterrupt}

DatabaseManager_init(url, key, outcome) ==
    IF ~Truthy(url) \/ ~Truthy(key)
    THEN Raise("ValueError", "Supabase URL and key must be provided")
    ELSE IF outcome = NoExc THEN NoExc
    ELSE IF IsInstance(outcome, "Exception")
    THEN Raise("RuntimeError", "Failed to initialize database connection")
    ELSE outcome

InitDatabase(outcome) ==
    /\ pc = "database"
    /\ LET raised == DatabaseManager_init(env["SUPABASE_URL"], env["SUPABASE_KEY"], outcome)
       IN  IF raised = NoExc
           THEN pc' = "mqtt" /\ boot' = Append(boot, "storage") /\ exc' = exc
           ELSE pc' = "main_except" /\ boot' = boot /\ exc' = raised
    /\ UNCHANGED <<env, exit_code, broker, bus, history>>

(***************************************************************************)
(* MQTTBridge.__init__: MQTTConfig(port=int(MQTT_PORT), ...), then         *)
(* _setup_mqtt_client                                                      *)
(***************************************************************************)
\* int(value) of a string
int(value) == IF value = "digits" THEN NoExc ELSE Raise("ValueError", "invalid literal for int()")

InitMqtt ==
    /\ pc = "mqtt"
    /\ LET raised == int(env["MQTT_PORT"])
       IN  IF raised = NoExc
           THEN pc' = "connect" /\ boot' = Append(boot, "mqtt") /\ exc' = exc
           ELSE pc' = "main_except" /\ boot' = boot /\ exc' = raised
    /\ UNCHANGED <<env, exit_code, broker, bus, history>>

(***************************************************************************)
(* main's except clauses.  logger is a local of main, bound by its third   *)
(* statement: a handler that runs before that raises UnboundLocalError,    *)
(* which nobody catches.  Returning from main ends the process with        *)
(* status 0; sys.exit(1) and an uncaught exception end it with status 1.   *)
(***************************************************************************)
\* variant: the interrupt is handled like any other exception
main_except_InterruptIsFatal(e, logger_bound) ==
    [raised |-> IF logger_bound THEN NoExc ELSE Raise("UnboundLocalError", "logger"),
     code |-> 1]

main_except(e, logger_bound) ==
    IF IsInstance(e, "KeyboardInterrupt")
    THEN IF logger_bound
         THEN [raised |-> NoExc, code |-> 0]
         ELSE [raised |-> Raise("UnboundLocalError", "logger"), code |-> 1]
    ELSE IF IsInstance(e, "Exception")
    THEN IF logger_bound
         THEN [raised |-> NoExc, code |-> 1]
         ELSE [raised |-> Raise("UnboundLocalError", "logger"), code |-> 1]
    ELSE [raised |-> e, code |-> 1]

MainExcept ==
    /\ pc = "main_except"
    /\ pc' = "exited"
    /\ exit_code' = main_except(exc, boot # <<>>).code
    /\ session' = "Disconnected"
    /\ subscriptions' = {}
    /\ acklog' = <<>>
    /\ UNCHANGED <<startup, broker, exc, history>>

\* where an exception raised inside start()'s try block is taken: to its
\* except Exception clause, or out of start() to main's except clauses
start_except(e) == IF IsInstance(e, "Exception") THEN "except" ELSE "main_except"

\* the events of trace: a connect call with what it did (0 returned, 1 raised),
\* an error logged by start(), a sleep of d seconds
ConnectEvent(outcome) == <<"connect", IF outcome = NoExc THEN 0 ELSE 1>>
ErrorEvent == <<"log_error", 0>>
SleepEvent(d) == <<"sleep", d>>

ConnectPositions == {i \in DOMAIN trace : trace[i][1] = "connect"}

ConnectCount == Cardinality(ConnectPositions)

EventCount == ConnectCount + Len(delivered)

\* what self._client.connect(broker, port) may do
ConnectOutcomes == {NoExc, Raise("OSError", "connection refused"), KeyboardInterrupt}

\* what client.table(..).insert(..).execute() may do
\* (line 127, as a whole): the store client raises, dataclasses.asdict raises
\* while it copies the record, or the user's interrupt arrives
InsertOutcomes ==
    {NoExc, Raise("APIError", "insert failed"), Raise("RecursionError", "asdict"),
     KeyboardInterrupt}

\* how loop_forever() may end by an exception
LoopOutcomes == {Raise("OSError", "connection lost"), KeyboardInterrupt}

\* the connect acknowledgment codes: 0 is success
AckCodes == {0, 5}

(***************************************************************************)
(* MQTTBridge.start: self._client.connect(...)                             *)
(***************************************************************************)
Connect(outcome) ==
    /\ pc = "connect"
    /\ ConnectCount < MaxConnects
    /\ EventCount < MaxEvents
    /\ broker = "up" => outcome = NoExc
    /\ trace' = Append(trace, ConnectEvent(outcome))
    /\ IF outcome = NoExc
       THEN pc' = "loop_forever" /\ session' = "Connecting" /\ exc' = NoExc
       ELSE pc' = start_except(outcome) /\ session' = "Disconnected" /\ exc' = outcome
    /\ UNCHANGED <<startup, exit_code, broker, subscriptions, acklog>>
    /\ UNCHANGED <<delivered, results, inserted, clock>>

(***************************************************************************)
(* MQTTBridge._on_connect, called by the transport inside loop_forever     *)
(***************************************************************************)
on_connect(rc) ==
    IF rc = 0
    THEN [subscribe |-> ConfigTopics,
          logs |-> <<LogLine("info", "Connected to MQTT broker successfully", ""),
                     LogLine("info", "Subscribed to topics", TopicType)>>]
    ELSE [subscribe |-> {},
          logs |-> <<LogLine("error", "Failed to connect to MQTT broker with code", rc)>>]

\* variant: the subscriptions are issued on the first connection only
OnConnect_SubscribeOnce(rc) ==
    /\ pc = "loop_forever"
    /\ session = "Connecting"
    /\ broker = "up" => rc = 0
    /\ session' = IF rc = 0 THEN "Connected" ELSE "Disconnected"
    /\ subscriptions' = IF ConnectCount = 1 THEN on_connect(rc).subscribe ELSE {}
    /\ acklog' = on_connect(rc).logs
    /\ UNCHANGED <<pc, startup, exit_code, broker, exc, history>>

OnConnect(rc) ==
    /\ pc = "loop_forever"
    /\ session = "Connecting"
    /\ broker = "up" => rc = 0
    /\ session' = IF rc = 0 THEN "Connected" ELSE "Disconnected"
    /\ subscriptions' = subscriptions \cup on_connect(rc).subscribe
    /\ acklog' = on_connect(rc).logs
    /\ UNCHANGED <<pc, startup, exit_code, broker, exc, history>>

(***************************************************************************)
(* The transport delivers msg: _on_message runs to its end.  r is what the *)
(* callback did; an exception leaving it leaves loop_forever too.          *)
(***************************************************************************)
Deliver(msg, r, now) ==
    /\ delivered' = Append(delivered, msg)
    /\ results' = Append(results, [logs |-> r.logs, calls |-> r.calls])
    /\ inserted' = inserted \o r.calls
    /\ clock' = IF r.calls # <<>> THEN now ELSE clock
    /\ IF r.raised = NoExc
       THEN UNCHANGED <<pc, bus, exc>>
       ELSE /\ pc' = start_except(r.raised)
            /\ exc' = r.raised
            /\ session' = "Disconnected"
            /\ subscriptions' = {}
            /\ acklog' = <<>>
    /\ UNCHANGED <<startup, exit_code, broker, trace>>

GuardOnMessage ==
    /\ pc = "loop_forever"
    /\ session = "Connected"
    /\ Len(delivered) < MaxMessages
    /\ EventCount < MaxEvents

\* what the callback did, with its insert calls left out
WithoutInsert(r) == [r EXCEPT !.calls = <<>>]

\* variant: once an insert has failed, later records are not stored
OnMessage_SkipAfterFailure(msg, ins, now) ==
    /\ GuardOnMessage
    /\ LET r == on_message(msg, ins, now)
       IN  IF \E i \in DOMAIN inserted : inserted[i].outcome # NoExc
           THEN Deliver(msg, WithoutInsert(r), now)
           ELSE Deliver(msg, r, now)

\* variant: a frame whose frame_id was inserted before is not inserted again
OnMessage_Dedup(msg, ins, now) ==
    /\ GuardOnMessage
    /\ LET r == on_message(msg, ins, now)
       IN  IF \E i \in DOMAIN inserted, j \in DOMAIN r.calls :
                 inserted[i].row.frame_id = r.calls[j].row.frame_id
           THEN Deliver(msg, WithoutInsert(r), now)
           ELSE Deliver(msg, r, now)

\* variant: the insert of a message is made ahead of the inserts of the
\* messages delivered before it
OnMessage_NewestFirst(msg, ins, now) ==
    /\ GuardOnMessage
    /\ LET r == on_message(msg, ins, now)
       IN  /\ delivered' = Append(delivered, msg)
           /\ results' = Append(results, [logs |-> r.logs, calls |-> r.calls])
           /\ inserted' = r.calls \o inserted
           /\ clock' = IF r.calls # <<>> THEN now ELSE clock
           /\ IF r.raised = NoExc
              THEN UNCHANGED <<pc, bus, exc>>
              ELSE /\ pc' = start_except(r.raised)
                   /\ exc' = r.raised
                   /\ session' = "Disconnected"
                   /\ subscriptions' = {}
                   /\ acklog' = <<>>
           /\ UNCHANGED <<startup, exit_code, broker, trace>>

OnMessage(msg, ins, now) ==
    /\ GuardOnMessage
    /\ Deliver(msg, on_message(msg, ins, now), now)

(***************************************************************************)
(* self._client.loop_forever() ends: by an exception, or by returning      *)
(***************************************************************************)
\* a broker that is up completes the handshake it has begun
HandshakeCompletes == broker = "up" => session # "Connecting"

LoopRaise(e) ==
    /\ pc = "loop_forever"
    /\ HandshakeCompletes \/ e = KeyboardInterrupt
    /\ pc' = start_except(e)
    /\ exc' = e
    /\ session' = "Disconnected"
    /\ subscriptions' = {}
    /\ acklog' = <<>>
    /\ UNCHANGED <<startup, exit_code, broker, history>>

LoopReturn ==
    /\ pc = "loop_forever"
    /\ HandshakeCompletes
    /\ pc' = "connect"
    /\ session' = "Disconnected"
    /\ subscriptions' = {}
    /\ acklog' = <<>>
    /\ UNCHANGED <<startup, exit_code, broker, exc, history>>

(***************************************************************************)
(* MQTTBridge.start: except Exception: log, sleep, go round the loop       *)
(***************************************************************************)
\* variant: the delay grows with the number of errors handled so far
ExceptHandler_Backoff ==
    /\ pc = "except"
    /\ IsInstance(exc, "Exception")
    /\ LET errors == Cardinality({i \in DOMAIN trace : trace[i] = ErrorEvent})
       IN  trace' = trace \o <<ErrorEvent, SleepEvent(RetryDelay * (errors + 1))>>
    /\ pc' = "connect"
    /\ exc' = NoExc
    /\ UNCHANGED <<startup, exit_code, broker, bus, delivered, results, inserted, clock>>

\* variant: the error is logged and start() gives up: the process ends
ExceptHandler_GiveUp ==
    /\ pc = "except"
    /\ IsInstance(exc, "Exception")
    /\ trace' = Append(trace, ErrorEvent)
    /\ pc' = "exited"
    /\ exit_code' = 1
    /\ UNCHANGED <<startup, broker, bus, exc, delivered, results, inserted, clock>>

ExceptHandler ==
    /\ pc = "except"
    /\ IsInstance(exc, "Exception")
    /\ trace' = trace \o <<ErrorEvent, SleepEvent(RetryDelay)>>
    /\ pc' = "connect"
    /\ exc' = NoExc
    /\ UNCHANGED <<startup, exit_code, broker, bus, delivered, results, inserted, clock>>

\* what datetime.utcnow() may read next: the last reading again, or a later
\* one.  Readings are only compared with each other, so "later" is one tick.
ClockReadings == {now \in {clock, clock + 1} : now <= MaxClock}

\* the interrupt arrives during time.sleep(5): the error is logged, the
\* sleep does not finish, and the interrupt leaves start()
SleepInterrupted ==
    /\ pc = "except"
    /\ IsInstance(exc, "Exception")
    /\ trace' = Append(trace, ErrorEvent)
    /\ pc' = start_except(KeyboardInterrupt)
    /\ exc' = KeyboardInterrupt
    /\ UNCHANGED <<startup, exit_code, broker, bus, delivered, results, inserted, clock>>

Next ==
    \/ \E outcome \in BasicConfigOutcomes : Import(outcome)
    \/ \E outcome \in MkdirOutcomes : MainBegin(outcome)
    \/ SetupEnvironment
    \/ \E outcome \in CreateClientOutcomes : InitDatabase(outcome)
    \/ InitMqtt
    \/ \E outcome \in ConnectOutcomes : Connect(outcome)
    \/ \E rc \in AckCodes : OnConnect(rc)
    \/ \E msg \in Messages, ins \in InsertOutcomes, now \in ClockReadings :
          OnMessage(msg, ins, now)
    \/ \E e \in LoopOutcomes : LoopRaise(e)
    \/ LoopReturn
    \/ ExceptHandler
    \/ SleepInterrupted
    \/ MainExcept

Spec == Init /\ [][Next]_vars

(***************************************************************************)
(* The connection supervisor alone, for its progress: no interrupt arrives *)
(* and no message is delivered (a delivery never moves start(), see C5).   *)
(* From some point on the broker may be up for good: connect() then        *)
(* returns and every handshake is accepted.                                *)
(*                                                                         *)
(* Fairness: a sleep ends and a connect call returns or raises (start() is *)
(* a sequential loop that nothing else blocks); the broker answers a       *)
(* connect with an acknowledgment; and loop_forever, which "blocks until   *)
(* disconnect/error", ends once the handshake has been rejected.           *)
(***************************************************************************)
BrokerComesUp ==
    /\ pc \in {"connect", "loop_forever", "except"}
    /\ broker = "unstable"
    /\ broker' = "up"
    /\ UNCHANGED <<pc, startup, exit_code, bus, exc, history>>

LiveConnect == \E outcome \in ConnectOutcomes \ {KeyboardInterrupt} : Connect(outcome)

LiveOnConnect == \E rc \in AckCodes : OnConnect(rc)

LiveLoopEnds ==
    \/ \E e \in LoopOutcomes \ {KeyboardInterrupt} : LoopRaise(e)
    \/ LoopReturn

LiveNext ==
    \/ \E outcome \in BasicConfigOutcomes : Import(outcome)
    \/ \E outcome \in MkdirOutcomes : MainBegin(outcome)
    \/ SetupEnvironment
    \/ \E outcome \in CreateClientOutcomes : InitDatabase(outcome)
    \/ InitMqtt
    \/ MainExcept
    \/ LiveConnect
    \/ LiveOnConnect
    \/ LiveLoopEnds
    \/ ExceptHandler
    \/ BrokerComesUp

Fairness ==
    /\ WF_vars(ExceptHandler)
    /\ WF_vars(LiveConnect)
    /\ WF_vars(LiveOnConnect)
    /\ WF_vars(session = "Disconnected" /\ LiveLoopEnds)

LiveSpec == Init /\ [][LiveNext]_vars /\ Fairness

(***************************************************************************)
(* What a delivered message is, read off its topic and bytes alone, and    *)
(* what was observed of its handling.                                      *)
(***************************************************************************)
Delivered == DOMAIN delivered

IsJsonText(b) == b.enc = "utf8" /\ b.text.kind # "garbage"

IsJsonObject(b) == b.enc = "utf8" /\ b.text.kind = "object"

KeysOf(b) == {b.text.members[i][1] : i \in DOMAIN b.text.members}

MissingFields(b) == RequiredSet \ KeysOf(b)

\* the value the payload's bytes give key k (no payload of the model repeats a key)
InputField(b, k) ==
    LET i == CHOOSE i \in DOMAIN b.text.members : b.text.members[i][1] = k
    IN  b.text.members[i][2]

\* a Data-topic message that decodes to a JSON object with every required field
WellFormedData(m) ==
    m.topic = DATA /\ IsJsonObject(m.payload) /\ MissingFields(m.payload) = {}

InsertAttempted(i) == results[i].calls # <<>>

InsertFailed(i) ==
    \E c \in DOMAIN results[i].calls : results[i].calls[c].outcome # NoExc

ErrorLogged(i) == \E l \in DOMAIN results[i].logs : results[i].logs[l].level = "error"

\* nothing stored, nothing reported as an error
Ignored(i) == ~InsertAttempted(i) /\ ~ErrorLogged(i)

\* the callback began its work on message i: its first log line is the
\* "Received message" line for the message's topic
Decoded(i) ==
    /\ results[i].logs # <<>>
    /\ results[i].logs[1] = LogLine("debug", "Received message on topic", delivered[i].topic)

\* a record without its creation timestamp
SansCreatedAt(row) == [row EXCEPT !.created_at = <<"time", 0>>]

(***************************************************************************)
(* C1. Storage failure isolation: when the insert for message N failed,    *)
(* every later message is still handled by its own content: it is decoded  *)
(* and classified, exactly one insert is attempted for it when it is a     *)
(* well-formed Data message, and none otherwise.                           *)
(***************************************************************************)
C1_FailureIsolation ==
    \A n \in Delivered : InsertFailed(n) =>
        \A k \in Delivered : k > n =>
            /\ Decoded(k)
            /\ WellFormedData(delivered[k]) => Len(results[k].calls) = 1
            /\ ~WellFormedData(delivered[k]) => ~InsertAttempted(k)
            /\ (delivered[k].topic = DATA /\ ~WellFormedData(delivered[k]))
                  => ErrorLogged(k)

\* message 1's insert failed, message 2 is well formed and its insert was made
C1_Witness ==
    /\ Len(delivered) >= 2
    /\ InsertFailed(1)
    /\ WellFormedData(delivered[2])
    /\ Len(results[2].calls) = 1
    /\ session = "Connected"

(***************************************************************************)
(* C2. Reconnection on connect failure: when the first N connect calls     *)
(* raise and an (N+1)-th is made, the run up to that call is N rounds of   *)
(* <connect raises, error logged, sleep of RetryDelay seconds> followed by *)
(* the (N+1)-th connect: N+1 attempts, one sleep between any two           *)
(* consecutive ones, every sleep of the same length.                       *)
(***************************************************************************)
\* the position in trace of the k-th connect call
NthConnect(k) ==
    CHOOSE i \in ConnectPositions :
        Cardinality({j \in ConnectPositions : j <= i}) = k

FirstFailed(n) ==
    /\ ConnectCount >= n
    /\ \A k \in 1..n : trace[NthConnect(k)] = ConnectEvent(Raise("OSError", ""))

\* n rounds of a failed attempt
FailedRounds(n) ==
    [i \in 1..(3 * n) |->
        CASE i % 3 = 1 -> ConnectEvent(Raise("OSError", ""))
          [] i % 3 = 2 -> ErrorEvent
          [] OTHER -> SleepEvent(RetryDelay)]

C2_ReconnectOnConnectFailure ==
    \A n \in 0..Len(trace) :
        (FirstFailed(n) /\ ConnectCount >= n + 1) =>
            /\ NthConnect(n + 1) = 3 * n + 1
            /\ SubSeq(trace, 1, 3 * n) = FailedRounds(n)

\* two connect calls raised and the third succeeded
C2_Witness ==
    /\ FirstFailed(2)
    /\ ConnectCount = 3
    /\ trace[Len(trace)] = ConnectEvent(NoExc)
    /\ pc = "loop_forever"

(***************************************************************************)
(* C3. Reconnection after a served session: whenever loop_forever ends     *)
(* after the session was Connected, whatever the cause, start() enters its *)
(* except clause, the one place where it logs the error and sleeps         *)
(* RetryDelay seconds before the next connect call (unless it is the       *)
(* user's interrupt that ended it).                                        *)
(***************************************************************************)
C3_ReconnectAfterSession ==
    [][(pc = "loop_forever" /\ session = "Connected" /\ pc' # "loop_forever")
          => (pc' = "except" \/ exc' = KeyboardInterrupt)]_vars

(***************************************************************************)
(* C4. One record, one insert, no retry: the insert calls made are as many *)
(* as the delivered well-formed Data messages; each such message has       *)
(* exactly one insert call, every other message none, and the store's call *)
(* log holds those calls in delivery order and nothing else.               *)
(***************************************************************************)
RECURSIVE CallsUpTo(_)
CallsUpTo(n) == IF n = 0 THEN <<>> ELSE CallsUpTo(n - 1) \o results[n].calls

C4_OneRecordOneInsert ==
    /\ Len(inserted) = Cardinality({i \in Delivered : WellFormedData(delivered[i])})
    /\ \A i \in Delivered :
          Len(results[i].calls) = IF WellFormedData(delivered[i]) THEN 1 ELSE 0
    /\ inserted = CallsUpTo(Len(delivered))

\* a failed insert followed by another delivery: still one call in the log
C4_Witness ==
    /\ Len(delivered) = 2
    /\ InsertFailed(1)
    /\ ~WellFormedData(delivered[2])
    /\ Len(inserted) = 1

(***************************************************************************)
(* C5. Message errors never end the session or the process: every step     *)
(* that delivers a message, whatever its topic and bytes and whatever the  *)
(* insert does, leaves start() inside loop_forever, the session Connected  *)
(* and the subscriptions as they were.  (The user's interrupt arriving     *)
(* during the insert is not an error of the message: see C12.)             *)
(***************************************************************************)
\* the user's interrupt arrived while the insert of r was running
InterruptedInsert(r) ==
    \E c \in DOMAIN r.calls : r.calls[c].outcome = KeyboardInterrupt

C5_MessageErrorsKeepSession ==
    [][(Len(delivered') = Len(delivered) + 1
            /\ ~InterruptedInsert(results'[Len(results')])) =>
          /\ pc' = "loop_forever"
          /\ session' = "Connected"
          /\ subscriptions' = subscriptions
          /\ subscriptions' = ConfigTopics
          /\ exc' = NoExc]_vars

\* undecodable bytes, then a JSON array on the Debug topic, and the session
\* is still served
C5_Witness ==
    /\ Len(delivered) = 2
    /\ delivered[1].payload = BadUtf8
    /\ delivered[2] = Message(DEBUG, Utf8(Array))
    /\ ErrorLogged(1) /\ ErrorLogged(2)
    /\ pc = "loop_forever"
    /\ session = "Connected"

(***************************************************************************)
(* C6. A Data-topic payload that is a JSON object missing at least one     *)
(* required field is reported with an error naming one of its missing      *)
(* fields, and no insert is made for it.                                   *)
(***************************************************************************)
C6_MissingFieldIsMalformed ==
    \A i \in Delivered :
        (/\ delivered[i].topic = DATA
         /\ IsJsonObject(delivered[i].payload)
         /\ MissingFields(delivered[i].payload) # {})
        => /\ ~InsertAttempted(i)
           /\ \E l \in DOMAIN results[i].logs :
                 /\ results[i].logs[l].level = "error"
                 /\ results[i].logs[l].text = "Missing required field in payload"
                 /\ results[i].logs[l].arg \in MissingFields(delivered[i].payload)

\* scenario B and an object missing only "timeout" were delivered
C6_Witness ==
    /\ Len(delivered) = 2
    /\ delivered[1] = Message(DATA, Utf8(ScenarioB))
    /\ delivered[2] = Message(DATA, Utf8(Object(Without(FullMembers, "timeout"))))
    /\ ErrorLogged(1) /\ ErrorLogged(2)
    /\ inserted = <<>>

(***************************************************************************)
(* C7 as stated: every Debug-topic message, whatever its payload, is       *)
(* Ignored (nothing stored, nothing reported as an error).                 *)
(***************************************************************************)
C7_DebugAlwaysIgnored ==
    \A i \in Delivered : delivered[i].topic = DEBUG => Ignored(i)

(***************************************************************************)
(* C7 amended: for every Debug-topic message, whatever its payload, no     *)
(* insert is made, and no insert call in the store's log comes from a      *)
(* Debug-topic message; when the payload decodes to a JSON object, with or *)
(* without a meta field, the message is Ignored.                           *)
(***************************************************************************)
C7_DebugNeverStored ==
    /\ \A i \in Delivered : delivered[i].topic = DEBUG =>
          /\ ~InsertAttempted(i)
          /\ IsJsonObject(delivered[i].payload) => Ignored(i)
    /\ Len(inserted) =
          Cardinality({i \in Delivered : delivered[i].topic = DATA /\ InsertAttempted(i)})

\* a Debug message with meta and one shaped like a complete Data message
C7_Witness ==
    /\ Len(delivered) = 2
    /\ delivered[1] = Message(DEBUG, Utf8(Object(<< <<"meta", <<"map", 2>>>> >>)))
    /\ delivered[2] = Message(DEBUG, Utf8(Object(FullMembers)))
    /\ Ignored(1) /\ Ignored(2)

(***************************************************************************)
(* C8 as stated: every message on a topic that is neither Data nor Debug,  *)
(* whatever its payload, is Ignored: no insert, and no report of a         *)
(* malformed message or a decode error.                                    *)
(***************************************************************************)
C8_OtherTopicAlwaysIgnored ==
    \A i \in Delivered : delivered[i].topic \notin TopicType => Ignored(i)

(***************************************************************************)
(* C8 amended: for every message on a topic that is neither Data nor       *)
(* Debug, no insert is made; when its payload decodes as JSON it is        *)
(* Ignored, and when it does not, a decode error is reported.              *)
(***************************************************************************)
C8_OtherTopicNeverStored ==
    \A i \in Delivered : delivered[i].topic \notin TopicType =>
        /\ ~InsertAttempted(i)
        /\ IsJsonText(delivered[i].payload) => Ignored(i)
        /\ ~IsJsonText(delivered[i].payload) => ErrorLogged(i)

\* a complete Data object and a JSON array on another topic
C8_Witness ==
    /\ Len(delivered) = 2
    /\ delivered[1] = Message(OtherTopic, Utf8(Object(FullMembers)))
    /\ delivered[2] = Message(OtherTopic, Utf8(Array))
    /\ Ignored(1) /\ Ignored(2)

(***************************************************************************)
(* C9. For every well-formed Data message the record passed to insert has  *)
(* stream_id, frame_id, device_id, timestamp and timeout equal to the      *)
(* input's, image_data equal to the input's data, and metadata equal to    *)
(* the input's metadata when present and to the empty mapping when absent. *)
(***************************************************************************)
C9_RecordFieldsVerbatim ==
    \A i \in Delivered : WellFormedData(delivered[i]) =>
        /\ Len(results[i].calls) = 1
        /\ LET row == results[i].calls[1].row
               b == delivered[i].payload
           IN  /\ row.stream_id = InputField(b, "stream_id")
               /\ row.frame_id = InputField(b, "frame_id")
               /\ row.device_id = InputField(b, "device_id")
               /\ row.timestamp = InputField(b, "timestamp")
               /\ row.timeout = InputField(b, "timeout")
               /\ row.image_data = InputField(b, "data")
               /\ row.metadata = IF "metadata" \in KeysOf(b)
                                 THEN InputField(b, "metadata")
                                 ELSE EmptyMapping

\* one record built without metadata and one with it
C9_Witness ==
    /\ Len(inserted) = 2
    /\ "metadata" \notin KeysOf(delivered[1].payload)
    /\ "metadata" \in KeysOf(delivered[2].payload)
    /\ inserted[1].row.metadata = EmptyMapping
    /\ inserted[2].row.metadata = <<"map", 1>>

(***************************************************************************)
(* C10. No deduplication: when the same well-formed Data bytes are         *)
(* delivered twice, each delivery has its own insert call, so two in       *)
(* total, and the two records are equal in every field but created_at.     *)
(***************************************************************************)
C10_NoDeduplication ==
    \A i, j \in Delivered :
        (i < j /\ delivered[i] = delivered[j] /\ WellFormedData(delivered[i])) =>
            /\ Len(results[i].calls) = 1
            /\ Len(results[j].calls) = 1
            /\ SansCreatedAt(results[i].calls[1].row) = SansCreatedAt(results[j].calls[1].row)
            /\ Cardinality({c \in DOMAIN inserted :
                   SansCreatedAt(inserted[c].row) = SansCreatedAt(results[i].calls[1].row)}) >= 2

\* the same bytes delivered twice, stored twice, at different clock readings
C10_Witness ==
    /\ Len(delivered) = 2
    /\ delivered[1] = delivered[2]
    /\ WellFormedData(delivered[1])
    /\ Len(inserted) = 2
    /\ inserted[1].row.created_at # inserted[2].row.created_at

(***************************************************************************)
(* C11. Malformed Data payloads: when the bytes of a Data-topic message    *)
(* are not the text of a JSON object (not UTF-8, not JSON, or JSON of      *)
(* another kind), the step that delivers it logs an error line for it,     *)
(* builds no record and makes no insert call, and the callback returns:    *)
(* start() stays inside loop_forever with no exception in flight.          *)
(***************************************************************************)
NotAnObject(m) == m.topic = DATA /\ ~IsJsonObject(m.payload)

C11_MalformedDataIsReported ==
    [][(Len(delivered') = Len(delivered) + 1 /\ NotAnObject(delivered'[Len(delivered')])) =>
          LET r == results'[Len(results')]
          IN  /\ \E l \in DOMAIN r.logs : r.logs[l].level = "error"
              /\ r.calls = <<>>
              /\ inserted' = inserted
              /\ pc' = "loop_forever"
              /\ exc' = NoExc]_vars

\* one session served both undecodable bytes and a JSON array on the Data
\* topic: each was reported, nothing was inserted, the session goes on
C11_Witness ==
    /\ Len(delivered) = 2
    /\ {delivered[1], delivered[2]} =
          {Message(DATA, BadUtf8), Message(DATA, Utf8(Array))}
    /\ ErrorLogged(1) /\ ErrorLogged(2)
    /\ inserted = <<>>
    /\ pc = "loop_forever"
    /\ session = "Connected"

(***************************************************************************)
(* C12. Exit status, as the claim states it: a non-zero exit happens only  *)
(* when a required configuration value is missing or the storage client    *)
(* cannot be constructed.                                                  *)
(***************************************************************************)
\* startup is complete: start() has been entered
Booted == boot = <<"logger", "env", "storage", "mqtt">>

ConfigMissing == setup_environment(env) # NoExc

StorageFailed == exc = Raise("RuntimeError", "Failed to initialize database connection")

Logged(i, level, text) ==
    \E l \in DOMAIN results[i].logs :
        results[i].logs[l].level = level /\ results[i].logs[l].text = text

C13_StoreDataReturnsBoolean ==
    \A i \in Delivered : \A c \in DOMAIN results[i].calls :
        LET outcome == results[i].calls[c].outcome
        IN  /\ (outcome = NoExc) <=> Logged(i, "info", "Successfully processed frame")
            /\ (outcome = NoExc) <=> Logged(i, "info", "Successfully stored frame")
            /\ IsInstance(outcome, "Exception") =>
                  /\ Logged(i, "error", "Error storing data")
                  /\ ~Logged(i, "error", "Error handling data message")
                  /\ ~Logged(i, "error", "Error processing message")

\* one insert failed in the store client, one while serialising, and the
\* session is still served
C13_Witness ==
    /\ Len(inserted) = 2
    /\ {inserted[1].outcome, inserted[2].outcome} =
          {Raise("APIError", "insert failed"), Raise("RecursionError", "asdict")}
    /\ Len(delivered) = 2
    /\ Logged(1, "error", "Error storing data")
    /\ Logged(2, "error", "Error storing data")
    /\ pc = "loop_forever"

(***************************************************************************)
(* C14. Handshake rejection: when the connect acknowledgment is not a      *)
(* success, _on_connect subscribes to nothing, logs an error and the       *)
(* session is Disconnected, not Connected; and when loop_forever then      *)
(* ends, start() enters its except clause, where it sleeps RetryDelay      *)
(* seconds before the next connect call (unless it is the user's interrupt *)
(* that ended it).                                                         *)
(***************************************************************************)
\* the handshake of this session was rejected and loop_forever is still running
Rejected == pc = "loop_forever" /\ session = "Disconnected"

C14_RejectionThenDelayedRetry ==
    [][/\ (pc = "loop_forever" /\ session = "Connecting" /\ Rejected') =>
             /\ subscriptions' = {}
             /\ \E l \in DOMAIN acklog' : acklog'[l].level = "error"
       /\ (Rejected /\ pc' # "loop_forever") =>
             (pc' = "except" \/ exc' = KeyboardInterrupt)]_vars

(***************************************************************************)
(* C15. Subscription on every entry to Connected: the step that makes the  *)
(* session Connected, on the first connection and on every reconnection,   *)
(* subscribes to device/data and device/debug at QoS 1 and delivers no     *)
(* message; a message is dispatched only in a session that holds these     *)
(* subscriptions; and the subscribed set is always exactly this set while  *)
(* Connected, and empty otherwise.                                         *)
(***************************************************************************)
FixedSubscriptions == {<<"device/data", 1>>, <<"device/debug", 1>>}

C15_SubscribeOnEveryConnect ==
    /\ [](subscriptions = IF session = "Connected" THEN FixedSubscriptions ELSE {})
    /\ [][/\ (session # "Connected" /\ session' = "Connected") =>
                (subscriptions' = FixedSubscriptions /\ delivered' = delivered)
          /\ Len(delivered') > Len(delivered) =>
                (session = "Connected" /\ subscriptions = FixedSubscriptions)]_vars

\* a reconnection: the first session was Connected and ended, the second
\* one is Connected with both subscriptions and has been handed a message
C15_Witness ==
    /\ ConnectCount = 2
    /\ trace[1] = ConnectEvent(NoExc)
    /\ trace[Len(trace)] = ConnectEvent(NoExc)
    /\ session = "Connected"
    /\ subscriptions = FixedSubscriptions
    /\ Len(delivered) = 1

(***************************************************************************)
(* C16. Sequential, order-preserving processing.  A step hands one message *)
(* to _on_message and runs it to its end: the step appends to the insert   *)
(* log the call for that message when it is a well-formed Data message and *)
(* nothing otherwise, so the insert for message N has returned before      *)
(* message N+1 is looked at.  Hence the k-th insert call is the call of    *)
(* the k-th well-formed Data message in delivery order, carries that       *)
(* message's metadata, and the records' creation times never decrease.     *)
(***************************************************************************)
\* how many of the first i delivered messages are well-formed Data messages
Rank(i) == Cardinality({j \in 1..i : WellFormedData(delivered[j])})

\* the metadata the bytes of m ask for
MetadataOf(m) ==
    IF "metadata" \in KeysOf(m.payload) THEN InputField(m.payload, "metadata")
    ELSE EmptyMapping

C16_SequentialInOrder ==
    /\ [](/\ Len(inserted) = Rank(Len(delivered))
          /\ \A i \in Delivered : WellFormedData(delivered[i]) =>
                /\ inserted[Rank(i)] = results[i].calls[1]
                /\ inserted[Rank(i)].row.metadata = MetadataOf(delivered[i])
          /\ \A k \in DOMAIN inserted : k > 1 =>
                inserted[k - 1].row.created_at[2] <= inserted[k].row.created_at[2])
    /\ [][Len(delivered') = Len(delivered) + 1 =>
             /\ \A k \in DOMAIN inserted : inserted'[k] = inserted[k]
             /\ Len(inserted') = Len(inserted) +
                    (IF WellFormedData(delivered'[Len(delivered')]) THEN 1 ELSE 0)]_vars

\* two well-formed Data messages of one session, the first with metadata and
\* a failed insert, the second without: two insert calls in that order
C16_Witness ==
    /\ Len(delivered) = 2
    /\ ConnectCount = 1
    /\ MetadataOf(delivered[1]) = <<"map", 1>>
    /\ MetadataOf(delivered[2]) = EmptyMapping
    /\ WellFormedData(delivered[1]) /\ WellFormedData(delivered[2])
    /\ Len(inserted) = 2
    /\ inserted[1].row.metadata = <<"map", 1>>
    /\ inserted[1].outcome # NoExc
    /\ inserted[2].row.metadata = EmptyMapping

(***************************************************************************)
(* C17. Startup ordering: the configuration is checked first, then the     *)
(* Storage Gateway is constructed, then the bus client, then the connect   *)
(* loop is entered.  When one of the four required values is missing the   *)
(* Storage Gateway is never constructed; when a value is missing or the    *)
(* construction of the gateway fails, no connect call is ever made and the *)
(* process can only end, with a non-zero status.                           *)
(***************************************************************************)
StartupOrder == <<"logger", "env", "storage", "mqtt">>

\* some required variable is unset or empty
SomeValueMissing ==
    \E i \in DOMAIN required_vars : env[required_vars[i]] \in {"unset", "empty"}

C17_StartupOrdering ==
    /\ Len(boot) <= Len(StartupOrder)
    /\ \A i \in DOMAIN boot : boot[i] = StartupOrder[i]
    /\ trace # <<>> => boot = StartupOrder
    /\ pc \in {"connect", "loop_forever", "except"} => boot = StartupOrder
    /\ SomeValueMissing => Len(boot) <= 1
    /\ (SomeValueMissing \/ StorageFailed) =>
          /\ trace = <<>>
          /\ pc \in {"import", "main", "setup_environment", "main_except", "exited"}
          /\ pc = "exited" => exit_code # 0

\* MQTT_PORT alone is missing: the process has ended with status 1, having
\* constructed neither the Storage Gateway nor the bus client
C17_Witness ==
    /\ \A i \in 1..3 : env[required_vars[i]] = "text"
    /\ env["MQTT_PORT"] = "unset"
    /\ boot = <<"logger">>
    /\ exc = Raise("RuntimeError", "MQTT_PORT")
    /\ pc = "exited"
    /\ exit_code = 1
    /\ trace = <<>>

(***************************************************************************)
(* C18. No terminal state, eventual connection (under LiveSpec, and while  *)
(* the model's budget of connect calls lasts).  After every failure, a     *)
(* connect call that raised, a rejected handshake, a session that ended,   *)
(* start() eventually makes another connect call.  And once the broker is  *)
(* up for good, the session eventually is Connected with the configured    *)
(* subscriptions issued.                                                   *)
(***************************************************************************)
\* start() is running and may make another connect call
CanConnect == ConnectCount < MaxConnects /\ EventCount < MaxEvents

\* n connect calls have been made and the last session or attempt is over
Failed(n) ==
    /\ ConnectCount = n
    /\ CanConnect
    /\ pc = "except" \/ pc = "connect" \/ Rejected

AllKeysPresent(m) ==
    m.topic = DATA /\ IsJsonObject(m.payload) /\ RequiredSet \subseteq KeysOf(m.payload)

\* the kinds of the values the bytes of m give the required keys
ValueKinds(m) == {InputField(m.payload, k)[1] : k \in RequiredSet}

C19_KeyPresenceOnly ==
    \A i \in Delivered : AllKeysPresent(delivered[i]) =>
        /\ ~Logged(i, "error", "Missing required field in payload")
        /\ ~Logged(i, "error", "Error handling data message")
        /\ ~Logged(i, "error", "Error processing message")
        /\ ~Logged(i, "error", "Failed to decode JSON message")
        /\ Len(results[i].calls) = 1
        /\ \A k \in RequiredSet \ {"data"} :
              results[i].calls[1].row[k] = InputField(delivered[i].payload, k)
        /\ results[i].calls[1].row.image_data = InputField(delivered[i].payload, "data")

\* a message with null, empty and wrongly typed values was stored as it came
C19_Witness ==
    /\ Len(delivered) = 1
    /\ AllKeysPresent(delivered[1])
    /\ ValueKinds(delivered[1]) = {"null", "str", "num", "map"}
    /\ Len(inserted) = 1
    /\ inserted[1].outcome = NoExc
    /\ inserted[1].row.stream_id = <<"null", 0>>
    /\ inserted[1].row.frame_id = <<"str", 0>>
    /\ inserted[1].row.timeout = <<"str", 30>>
    /\ inserted[1].row.image_data = <<"null", 0>>

====
